---- MODULE Spec2Model ----
(***************************************************************************)
(* A model of ddtrace/internal/assembly.py: the Assembly builder, its line *)
(* parser, label tables, try-block tracker, bind/compile/dis, and the      *)
(* module functions relocate and transform_instruction.                    *)
(*                                                                         *)
(* Text.  A string is a sequence of atoms.  An atom is an identifier-like  *)
(* run of characters ("a", "try", "LOAD_CONST", "1") or one punctuation    *)
(* character (":", "@", "$", "{", "}", "#", " ").  str.strip, str.split,   *)
(* startswith, endswith and slicing act on these sequences the way they    *)
(* act on characters.                                                      *)
(*                                                                         *)
(* Objects.  bc.Label() and bc.TryBegin() are compared by identity in the  *)
(* code; here each gets a fresh number from nextId.  Optional values are   *)
(* None == <<>> or Some(x) == <<x>>.                                       *)
(*                                                                         *)
(* Exceptions.  Every operator that can raise returns a record whose err   *)
(* field is "" on normal return and the tag of the raised error otherwise. *)
(*                                                                         *)
(* Library.  bc.Instr(...) is taken to accept every operand the model      *)
(* builds; dis.opmap is the set OpMap.                                     *)
(***************************************************************************)
EXTENDS Integers, Sequences, FiniteSets, TLC

VARIABLES
    pyver,        \* sys.version_info as major * 100 + minor
    lineno,       \* Assembly._lineno
    labels,       \* Assembly._labels: ident -> Label
    ref_labels,   \* Assembly._ref_labels: ident -> Label
    tb,           \* Assembly._tb
    instrs,       \* Assembly._instrs: the Bytecode [items, name, filename]
    bind_opargs,  \* Assembly._bind_opargs: position -> BindOpArg
    nextId,       \* allocation counter for Label / TryBegin identities
    yielded,      \* history: what parse_label / parse_label_ref returned
    ret,          \* the last call on the builder and its outcome
    held,         \* the Bytecode the last bind returned, in its caller's hands
    tx            \* transform_instruction applied on its own: input and results

vars == <<pyver, lineno, labels, ref_labels, tb, instrs, bind_opargs, nextId,
          yielded, ret, held, tx>>

-----------------------------------------------------------------------------
(* Bounds *)

\* the longest entry sequence a builder grows to
MaxEntries == 2
\* the number of times transform_instruction is applied to its own result
MaxApply == 2

-----------------------------------------------------------------------------
(* Program constants *)

Py311 == 311
Py312 == 312
PyVersions == {310, Py311, Py312}

None == <<>>
Some(x) == <<x>>

SP == " "

\* dis.opmap restricted to the opcodes the model's programs use
OpMap == {"NOP", "LOAD_CONST", "LOAD_ATTR", "LOAD_METHOD", "JUMP_FORWARD"}

\* str.upper on an atom
Upper(a) ==
    CASE a = "nop" -> "NOP"
      [] a = "load_attr" -> "LOAD_ATTR"
      [] a = "load_method" -> "LOAD_METHOD"
      [] a = "try" -> "TRY"
      [] a = "tried" -> "TRIED"
      [] a = "bogus" -> "BOGUS"
      [] OTHER -> a

Punct == {":", "@", "$", "{", "}", "#", SP, "(", ")", ",", "'", "<", ">", "="}
Digits == {"0", "1", "2"}

\* str.isidentifier
IsIdentifier(text) ==
    /\ Len(text) = 1
    /\ text[1] \notin Punct
    /\ text[1] \notin Digits

\* the value of a digit atom
DigitValue(a) == CASE a = "0" -> 0 [] a = "1" -> 1 [] OTHER -> 2

-----------------------------------------------------------------------------
(* Operand values *)

UNSET == [t |-> "unset"]
PyNone == [t |-> "none"]
LabelArg(l) == [t |-> "label", l |-> l]
StrArg(s) == [t |-> "str", s |-> s]
IntArg(n) == [t |-> "int", n |-> n]
TupleArg(flag, inner) == [t |-> "tuple", flag |-> flag, inner |-> inner]

(* Entries of a Bytecode *)
Instr(name, arg, line) == [kind |-> "Instr", name |-> name, arg |-> arg, lineno |-> line]
Label(l) == [kind |-> "Label", l |-> l]
TryBegin(id, target, push_lasti) ==
    [kind |-> "TryBegin", id |-> id, target |-> target, push_lasti |-> push_lasti]
TryEnd(entry) == [kind |-> "TryEnd", entry |-> entry]
BindOpArg(name, arg, line) == [kind |-> "BindOpArg", name |-> name, arg |-> arg, lineno |-> line]

\* bc.Bytecode(): the library's defaults for a fresh container
NewBytecode(items) == [items |-> items, name |-> "<module>", filename |-> "<string>"]

-----------------------------------------------------------------------------
(* Dictionaries *)

EmptyDict == [k \in {} |-> 0]
Put(d, k, v) == [x \in DOMAIN d \cup {k} |-> IF x = k THEN v ELSE d[x]]
Del(d, k) == [x \in DOMAIN d \ {k} |-> d[x]]

-----------------------------------------------------------------------------
(* String operations *)

RECURSIVE LStrip(_)
LStrip(s) == IF s # <<>> /\ Head(s) = SP THEN LStrip(Tail(s)) ELSE s

RECURSIVE RStrip(_)
RStrip(s) == IF s # <<>> /\ s[Len(s)] = SP THEN RStrip(SubSeq(s, 1, Len(s) - 1)) ELSE s

Strip(s) == RStrip(LStrip(s))

StartsWith(s, a) == s # <<>> /\ s[1] = a
EndsWith(s, a) == s # <<>> /\ s[Len(s)] = a

\* the first word of a string that does not start with a space
RECURSIVE FirstWord(_)
FirstWord(s) ==
    IF s = <<>> \/ Head(s) = SP THEN <<>> ELSE <<Head(s)>> \o FirstWord(Tail(s))

\* str.split(maxsplit = n) on whitespace
RECURSIVE Split(_, _)
Split(s, n) ==
    LET t == LStrip(s) IN
    IF t = <<>> THEN <<>>
    ELSE IF n = 0 THEN <<t>>
    ELSE LET w == FirstWord(t) IN
         <<w>> \o Split(SubSeq(t, Len(w) + 1, Len(t)), n - 1)

-----------------------------------------------------------------------------
(* Results of the parsing methods: the builder after the call, the error   *)
(* raised ("" when none), the identifiers the error names, and the value   *)
(* returned (None or Some(v)).                                             *)

Return(b, r) == [b |-> b, err |-> "", ids |-> {}, r |-> r]
Raise(b, err, ids) == [b |-> b, err |-> err, ids |-> ids, r |-> None]

\* The error classes of the messages the code raises
ErrKind(err) ==
    CASE err \in {"invalid identifier", "unknown opcode", "invalid line",
                  "invalid label reference for try block"} -> "syntax"
      [] err \in {"label already defined", "undefined labels"} -> "symbol"
      [] err \in {"cannot start try block while another is open",
                  "cannot end try block while none is open"} -> "region"
      [] err = "missing bind arguments" -> "binding"
      [] err = "eval" -> "evaluation"
      [] err = "" -> "none"
      [] OTHER -> "other"

\* The builder as one value
Self ==
    [labels |-> labels, ref_labels |-> ref_labels, tb |-> tb, instrs |-> instrs,
     bind_opargs |-> bind_opargs, nextId |-> nextId, yielded |-> yielded]

\* Assembly.__init__
NewAssembly(name, filename) ==
    [labels |-> EmptyDict, ref_labels |-> EmptyDict, tb |-> None,
     instrs |-> [items |-> <<>>,
                 name |-> IF name = None THEN "<assembly>" ELSE name[1],
                 filename |-> IF filename = None THEN "__file__" ELSE filename[1]],
     bind_opargs |-> EmptyDict, nextId |-> 1, yielded |-> {}]

\* history of the labels handed out for each identifier
Yield(b, ident, l, how) ==
    [b EXCEPT !.yielded = @ \cup {[ident |-> ident, l |-> l, how |-> how]}]

\* Assembly.parse_ident
ParseIdent(text) ==
    IF ~IsIdentifier(text) THEN [err |-> "invalid identifier", r |-> None]
    ELSE [err |-> "", r |-> Some(text[1])]

\* Assembly.parse_number
ParseNumber(text) ==
    IF Len(text) = 1 /\ text[1] \in Digits THEN Some(DigitValue(text[1])) ELSE None

\* parse_label that always makes a new Label and drops the pending one
DefineLabelFresh(b, id) ==
    IF id.err # "" THEN Raise(b, id.err, {})
    ELSE IF id.r[1] \in DOMAIN b.labels
    THEN Raise(b, "label already defined", {id.r[1]})
    ELSE Return(Yield([b EXCEPT !.labels = Put(@, id.r[1], b.nextId),
                                !.ref_labels = Del(@, id.r[1]),
                                !.nextId = @ + 1],
                      id.r[1], b.nextId, "def"),
                Some(Label(b.nextId)))

\* parse_label without the check for an already defined identifier
DefineLabelAgain(b, id) ==
    IF id.err # "" THEN Raise(b, id.err, {})
    ELSE Return(Yield([b EXCEPT !.labels = Put(@, id.r[1],
                                    IF id.r[1] \in DOMAIN b.ref_labels
                                    THEN b.ref_labels[id.r[1]] ELSE b.nextId),
                                !.ref_labels = Del(@, id.r[1]),
                                !.nextId = @ + 1],
                      id.r[1],
                      IF id.r[1] \in DOMAIN b.ref_labels
                      THEN b.ref_labels[id.r[1]] ELSE b.nextId, "def"),
                Some(Label(IF id.r[1] \in DOMAIN b.ref_labels
                           THEN b.ref_labels[id.r[1]] ELSE b.nextId)))

\* parse_label that leaves the identifier in the pending map
DefineLabelKeepsPending(b, id) ==
    IF id.err # "" THEN Raise(b, id.err, {})
    ELSE LET label_ident == id.r[1] IN
         IF label_ident \in DOMAIN b.labels
         THEN Raise(b, "label already defined", {label_ident})
         ELSE LET popped == IF label_ident \in DOMAIN b.ref_labels
                            THEN Some(b.ref_labels[label_ident]) ELSE None
                  label == IF popped # None THEN popped[1] ELSE b.nextId
                  b1 == [b EXCEPT !.labels = Put(@, label_ident, label),
                                  !.nextId = IF popped # None THEN @ ELSE @ + 1]
              IN Return(Yield(b1, label_ident, label, "def"), Some(Label(label)))

\* Assembly.parse_label, lines 95-100: id is what parse_ident returned
DefineLabel(b, id) ==
    IF id.err # "" THEN Raise(b, id.err, {})
    ELSE LET label_ident == id.r[1] IN
         IF label_ident \in DOMAIN b.labels
         THEN Raise(b, "label already defined", {label_ident})
         ELSE LET popped == IF label_ident \in DOMAIN b.ref_labels
                            THEN Some(b.ref_labels[label_ident]) ELSE None
                  label == IF popped # None THEN popped[1] ELSE b.nextId
                  b1 == [b EXCEPT !.labels = Put(@, label_ident, label),
                                  !.ref_labels = Del(@, label_ident),
                                  !.nextId = IF popped # None THEN @ ELSE @ + 1]
              IN Return(Yield(b1, label_ident, label, "def"), Some(Label(label)))

\* Assembly.parse_label
ParseLabel(b, line) ==
    IF ~EndsWith(line, ":") THEN Return(b, None)
    ELSE DefineLabel(b, ParseIdent(SubSeq(line, 1, Len(line) - 1)))

\* Assembly.parse_label_ref, lines 108-115: id is what parse_ident returned
LookupLabel(b, id) ==
    IF id.err # "" THEN Raise(b, id.err, {})
    ELSE LET label_ident == id.r[1] IN
         IF label_ident \in DOMAIN b.labels
         THEN Return(Yield(b, label_ident, b.labels[label_ident], "ref"),
                     Some(b.labels[label_ident]))
         ELSE IF label_ident \in DOMAIN b.ref_labels
         THEN Return(Yield(b, label_ident, b.ref_labels[label_ident], "ref"),
                     Some(b.ref_labels[label_ident]))
         ELSE Return(Yield([b EXCEPT !.ref_labels = Put(@, label_ident, b.nextId),
                                     !.nextId = @ + 1],
                           label_ident, b.nextId, "ref"),
                     Some(b.nextId))

\* Assembly.parse_label_ref
ParseLabelRef(b, text) ==
    IF ~StartsWith(text, "@") THEN Return(b, None)
    ELSE LookupLabel(b, ParseIdent(Tail(text)))

\* Assembly.parse_string_ref
ParseStringRef(text) ==
    IF ~StartsWith(text, "$") THEN [err |-> "", r |-> None]
    ELSE ParseIdent(Tail(text))

\* Assembly.parse_try_begin, lines 138-143: label is what parse_label_ref
\* returned, lasti the rest of the split line
OpenTry(label, lasti) ==
    IF label.err # "" THEN label
    ELSE IF label.r = None
    THEN Raise(label.b, "invalid label reference for try block", {})
    ELSE Return([label.b EXCEPT
                    !.tb = Some(TryBegin(label.b.nextId, label.r[1], lasti # <<>>)),
                    !.nextId = @ + 1],
                Some(TryBegin(label.b.nextId, label.r[1], lasti # <<>>)))

\* Assembly.parse_try_begin, lines 131-143: parts is line.split(maxsplit=2)
TryBeginOf(b, parts) ==
    IF Len(parts) < 2 THEN Return(b, None)
    ELSE IF parts[1] # <<"try">> THEN Return(b, None)
    ELSE IF b.tb # None
    THEN Raise(b, "cannot start try block while another is open", {})
    ELSE OpenTry(ParseLabelRef(b, parts[2]), SubSeq(parts, 3, Len(parts)))

\* Assembly.parse_try_begin (defined when sys.version_info >= (3, 11))
ParseTryBegin(b, line) == TryBeginOf(b, Split(line, 2))

\* parse_try_end that leaves the open-region slot set
ParseTryEndKeepsOpen(b, line) ==
    IF line # <<"tried">> THEN Return(b, None)
    ELSE IF b.tb = None
    THEN Raise(b, "cannot end try block while none is open", {})
    ELSE Return(b, Some(TryEnd(b.tb[1].id)))

\* Assembly.parse_try_end (defined when sys.version_info >= (3, 11))
ParseTryEnd(b, line) ==
    IF line # <<"tried">> THEN Return(b, None)
    ELSE IF b.tb = None
    THEN Raise(b, "cannot end try block while none is open", {})
    ELSE Return([b EXCEPT !.tb = None], Some(TryEnd(b.tb[1].id)))

\* Assembly.parse_opcode
ParseOpcode(text) ==
    IF Len(text) = 1 /\ Upper(text[1]) \in OpMap
    THEN [err |-> "", r |-> Some(Upper(text[1]))]
    ELSE [err |-> "unknown opcode", r |-> None]

\* the text str() gives for a tagged pair (flag, 'name')
TupleText(flag, s) ==
    <<"(", IF flag THEN "True" ELSE "False", ",", SP, "'", s, "'", ")">>

\* Assembly.parse_expr: eval() of the operand text.  The expressions of the
\* model are None, a number, and a pair (True, 'name') / (False, 'name');
\* any other text raises (NameError or SyntaxError) out of eval.
ParseExpr(text) ==
    IF text = <<"None">> THEN [err |-> "", r |-> Some(PyNone)]
    ELSE IF Len(text) = 1 /\ text[1] \in Digits
    THEN [err |-> "", r |-> Some(IntArg(DigitValue(text[1])))]
    ELSE IF Len(text) = 8 /\ text[2] \in {"True", "False"}
            /\ IsIdentifier(<<text[6]>>) /\ text = TupleText(text[2] = "True", text[6])
    THEN [err |-> "", r |-> Some(TupleArg(text[2] = "True", StrArg(text[6])))]
    ELSE [err |-> "eval", r |-> None]

\* Assembly.parse_opcode_arg, lines 179-181: the alternatives tried after
\* parse_label_ref returned None (a returned 0 is false and falls through)
LiteralArg(b, text) ==
    LET str == ParseStringRef(text)
        num == ParseNumber(text)
        expr == ParseExpr(text)
    IN IF str.err # "" THEN Raise(b, str.err, {})
       ELSE IF str.r # None THEN Return(b, Some(StrArg(str.r[1])))
       ELSE IF num # None /\ num[1] # 0 THEN Return(b, Some(IntArg(num[1])))
       ELSE IF expr.err # "" THEN Raise(b, expr.err, {})
       ELSE Return(b, expr.r)

\* Assembly.parse_opcode_arg, lines 177-182: ref is what parse_label_ref returned
ArgOf(b, text, ref) ==
    IF ref.err # "" THEN ref
    ELSE IF ref.r # None THEN Return(ref.b, Some(LabelArg(ref.r[1])))
    ELSE LiteralArg(b, text)

\* Assembly.parse_opcode_arg
ParseOpcodeArg(b, text) ==
    IF text = <<>> THEN Return(b, Some(UNSET))
    ELSE ArgOf(b, text, ParseLabelRef(b, text))

\* Assembly.parse_bind_opcode_arg
ParseBindOpcodeArg(text) ==
    IF ~StartsWith(text, "{") \/ ~EndsWith(text, "}") THEN None
    ELSE Some(SubSeq(text, 2, Len(text) - 1))

\* transform_instruction that tags a LOAD_ATTR operand whatever its type
TransformInstructionRetags(ver, opcode, arg) ==
    IF ver >= Py312
    THEN IF Upper(opcode) = "LOAD_METHOD" THEN <<"LOAD_ATTR", TupleArg(TRUE, arg)>>
         ELSE IF Upper(opcode) = "LOAD_ATTR" THEN <<opcode, TupleArg(FALSE, arg)>>
         ELSE <<opcode, arg>>
    ELSE <<opcode, arg>>

\* transform_instruction, for the interpreter version ver
TransformInstruction(ver, opcode, arg) ==
    IF ver >= Py312
    THEN IF Upper(opcode) = "LOAD_METHOD" THEN <<"LOAD_ATTR", TupleArg(TRUE, arg)>>
         ELSE IF Upper(opcode) = "LOAD_ATTR" /\ arg.t # "tuple"
         THEN <<opcode, TupleArg(FALSE, arg)>>
         ELSE <<opcode, arg>>
    ELSE <<opcode, arg>>

\* Assembly.parse_instruction, lines 200-202: a is what parse_opcode_arg returned
MakeInstr(opcode, a) ==
    IF a.err # "" THEN a
    ELSE Return(a.b, Some(Instr(TransformInstruction(pyver, opcode, a.r[1])[1],
                                TransformInstruction(pyver, opcode, a.r[1])[2],
                                lineno)))

\* Assembly.parse_instruction, lines 193-202: parts is line.split(maxsplit=1)
InstructionOf(b, parts) ==
    LET arg == IF Len(parts) = 2 THEN parts[2] ELSE <<>>
        bind_arg == IF Len(parts) = 2 THEN ParseBindOpcodeArg(parts[2]) ELSE None
        op == ParseOpcode(parts[1])
    IN IF op.err # "" THEN Raise(b, op.err, {})
       ELSE IF bind_arg # None
       THEN Return(b, Some(BindOpArg(op.r[1], bind_arg[1], lineno)))
       ELSE MakeInstr(op.r[1], ParseOpcodeArg(b, arg))

\* Assembly.parse_instruction
ParseInstruction(b, line) == InstructionOf(b, Split(line, 1))

\* Assembly.parse_line, lines 215-218
CheckEntry(entry) ==
    IF entry.err = "" /\ entry.r = None THEN Raise(entry.b, "invalid line", {})
    ELSE entry

\* Assembly.parse_line, lines 209-210: end is what parse_try_end returned
LineAfterTryEnd(b, line, end) ==
    IF end.err # "" \/ end.r # None THEN end
    ELSE CheckEntry(ParseInstruction(b, line))

\* Assembly.parse_line, lines 208-210: begin is what parse_try_begin returned
LineAfterTryBegin(b, line, begin) ==
    IF begin.err # "" \/ begin.r # None THEN begin
    ELSE LineAfterTryEnd(b, line, ParseTryEnd(b, line))

\* parse_line that tries the try-block productions on every version
LineAfterLabelTries(b, line, label) ==
    IF label.err # "" \/ label.r # None THEN label
    ELSE LineAfterTryBegin(b, line, ParseTryBegin(b, line))

\* Assembly.parse_line, lines 205-213: label is what parse_label returned
LineAfterLabel(b, line, label) ==
    IF label.err # "" \/ label.r # None THEN label
    ELSE IF pyver >= Py311
    THEN LineAfterTryBegin(b, line, ParseTryBegin(b, line))
    ELSE CheckEntry(ParseInstruction(b, line))

\* Assembly.parse_line
ParseLine(b, line) == LineAfterLabel(b, line, ParseLabel(b, line))

\* _validate that reports nothing
ValidateSilent(b) == Return(b, None)

\* _validate that also rejects an open try block
ValidateChecksRegion(b) ==
    IF DOMAIN b.ref_labels # {} THEN Raise(b, "undefined labels", DOMAIN b.ref_labels)
    ELSE IF b.tb # None THEN Raise(b, "cannot end parse while a try block is open", {})
    ELSE Return(b, None)

\* Assembly._validate
Validate(b) ==
    IF DOMAIN b.ref_labels # {} THEN Raise(b, "undefined labels", DOMAIN b.ref_labels)
    ELSE Return(b, None)

\* the loop body of parse that records the position after the entry
AppendEntryAfter(b, entry) ==
    [b EXCEPT !.bind_opargs = IF entry.kind = "BindOpArg"
                              THEN Put(@, Len(b.instrs.items) + 1, entry) ELSE @,
              !.instrs.items = Append(@, entry)]

\* the body of the loop of Assembly.parse, for one parsed entry
AppendEntry(b, entry) ==
    [b EXCEPT !.bind_opargs = IF entry.kind = "BindOpArg"
                              THEN Put(@, Len(b.instrs.items), entry) ELSE @,
              !.instrs.items = Append(@, entry)]

\* the outcome of parse: the builder, the error, and the number of lines
\* consumed before the call returned or raised
Parsed(v, at) == [b |-> v.b, err |-> v.err, ids |-> v.ids, at |-> at]

\* Assembly.parse on the lines of asm from line at + 1 on
RECURSIVE ParseFrom(_, _, _)
\* Assembly.parse, lines 229-233: e is what parse_line returned for line at + 1
ParseStep(e, asm, at) ==
    IF e.err # "" THEN Parsed(e, at)
    ELSE ParseFrom(AppendEntry(e.b, e.r[1]), asm, at + 1)

ParseFrom(b, asm, at) ==
    IF at = Len(asm) THEN Parsed(Validate(b), at)
    ELSE IF Strip(asm[at + 1]) = <<>> \/ StartsWith(Strip(asm[at + 1]), "#")
    THEN ParseFrom(b, asm, at + 1)
    ELSE ParseStep(ParseLine(b, Strip(asm[at + 1])), asm, at)

\* Assembly.parse
Parse(b, asm) == ParseFrom(b, asm, 0)

-----------------------------------------------------------------------------
(* Binding, relocation, finalization, disassembly *)

\* relocate that sets the line on the instructions of its argument
RelocateInPlace(bytecode, line) ==
    [src |-> [bytecode EXCEPT !.items =
                 [i \in 1..Len(bytecode.items) |->
                    IF bytecode.items[i].kind = "Instr"
                    THEN [bytecode.items[i] EXCEPT !.lineno = Some(line)]
                    ELSE bytecode.items[i]]],
     out |-> NewBytecode([i \in 1..Len(bytecode.items) |->
                 IF bytecode.items[i].kind = "Instr"
                 THEN [bytecode.items[i] EXCEPT !.lineno = Some(line)]
                 ELSE bytecode.items[i]])]

\* relocate: the new Bytecode (out) and the argument as the call leaves it (src)
Relocate(bytecode, line) ==
    [src |-> bytecode,
     out |-> NewBytecode([i \in 1..Len(bytecode.items) |->
                 IF bytecode.items[i].kind = "Instr"
                 THEN [bytecode.items[i] EXCEPT !.lineno = Some(line)]
                 ELSE bytecode.items[i]])]

\* BindOpArg.__call__ that uses the placeholder's identifier as the operand
CallBindOpArgUnbound(self, bind_args, line) ==
    IF Len(self.arg) = 1 /\ self.arg[1] \in DOMAIN bind_args
    THEN [err |-> "",
          r |-> Some(Instr(self.name, StrArg(self.arg[1]),
                           IF line # None THEN line ELSE self.lineno))]
    ELSE [err |-> "KeyError", r |-> None]

\* BindOpArg.__call__ that forgets the placeholder's default line
CallBindOpArgNoDefault(self, bind_args, line) ==
    IF Len(self.arg) = 1 /\ self.arg[1] \in DOMAIN bind_args
    THEN [err |-> "", r |-> Some(Instr(self.name, bind_args[self.arg[1]], line))]
    ELSE [err |-> "KeyError", r |-> None]

\* BindOpArg.__call__
CallBindOpArg(self, bind_args, line) ==
    IF Len(self.arg) = 1 /\ self.arg[1] \in DOMAIN bind_args
    THEN [err |-> "",
          r |-> Some(Instr(self.name, bind_args[self.arg[1]],
                           IF line # None THEN line ELSE self.lineno))]
    ELSE [err |-> "KeyError", r |-> None]

\* bc.Bytecode(self._instrs) in bind: the container bind writes into (work),
\* the builder's own (own), and whether the two are one object (shared)
CopyInstrs(bytecode) ==
    [own |-> bytecode, work |-> NewBytecode(bytecode.items), shared |-> FALSE]

\* instrs[i] = v on the working container
SetItem(st, i, v) ==
    LET w == [st.work EXCEPT !.items[i + 1] = v]
    IN [st EXCEPT !.work = w, !.own = IF st.shared THEN w ELSE @]

\* the loop of bind over self._bind_opargs.items(), in insertion order, which
\* is the order of the positions
RECURSIVE BindLoop(_, _, _, _, _)
BindLoop(st, opargs, todo, bind_args, line) ==
    IF todo = {} THEN [st |-> st, err |-> ""]
    ELSE LET i == CHOOSE k \in todo : \A j \in todo : k <= j
             v == CallBindOpArg(opargs[i], bind_args, line)
         IN IF v.err # "" THEN [st |-> st, err |-> v.err]
            ELSE BindLoop(SetItem(st, i, v.r[1]), opargs, todo \ {i}, bind_args, line)

\* what bind returns: the builder after the call, the error raised, the
\* Bytecode returned, and whether that Bytecode is the builder's own object
Bound(b, own, err, val, alias) ==
    [b |-> [b EXCEPT !.instrs = own], err |-> err, val |-> val, alias |-> alias]

\* Assembly.bind, lines 238-241
BindPlain(b, line, r) ==
    IF line # None THEN Bound(b, r.src, "", Some(r.out), FALSE)
    ELSE Bound(b, b.instrs, "", Some(b.instrs), TRUE)

\* Assembly.bind, line 254: st is the state of the containers after the loop,
\* r what relocate made of the working container
BindReturn(b, st, line, r) ==
    IF line # None
    THEN Bound(b, IF st.shared THEN r.src ELSE st.own, "", Some(r.out), FALSE)
    ELSE Bound(b, st.own, "", Some(st.work), st.shared)

\* Assembly.bind, lines 250-254: l is the outcome of the loop
BindFilled(b, l, line) ==
    IF l.err # "" THEN Bound(b, l.st.own, l.err, None, FALSE)
    ELSE BindReturn(b, l.st, line,
                    Relocate(l.st.work, IF line # None THEN line[1] ELSE 0))

\* bind that takes missing bind_args for an empty mapping
BindDefaultsArgs(b, bind_args, line) ==
    IF DOMAIN b.bind_opargs = {}
    THEN BindPlain(b, line, Relocate(b.instrs, IF line # None THEN line[1] ELSE 0))
    ELSE BindFilled(b, BindLoop(CopyInstrs(b.instrs), b.bind_opargs,
                                DOMAIN b.bind_opargs,
                                IF bind_args = None THEN EmptyDict ELSE bind_args[1],
                                line),
                    line)

\* Assembly.bind
Bind(b, bind_args, line) ==
    IF DOMAIN b.bind_opargs = {}
    THEN BindPlain(b, line, Relocate(b.instrs, IF line # None THEN line[1] ELSE 0))
    ELSE IF bind_args = None
    THEN Bound(b, b.instrs, "missing bind arguments", None, FALSE)
    ELSE BindFilled(b, BindLoop(CopyInstrs(b.instrs), b.bind_opargs,
                                DOMAIN b.bind_opargs, bind_args[1], line),
                    line)

\* the labels an entry sequence refers to, and those it defines
Referenced(items) ==
    {items[i].arg.l : i \in {k \in 1..Len(items) :
                              items[k].kind = "Instr" /\ items[k].arg.t = "label"}}
    \cup {items[i].target : i \in {k \in 1..Len(items) : items[k].kind = "TryBegin"}}
Defined(items) ==
    {items[i].l : i \in {k \in 1..Len(items) : items[k].kind = "Label"}}

\* Bytecode.to_code: the library resolves every jump and handler target to
\* the position of its Label and raises when the Label is not in the sequence.
\* It is handed Label objects only, never their identifiers.
ToCode(bytecode) ==
    IF Referenced(bytecode.items) \subseteq Defined(bytecode.items)
    THEN [err |-> "",
          r |-> Some([name |-> bytecode.name, filename |-> bytecode.filename,
                      n |-> Len(bytecode.items)])]
    ELSE [err |-> "to_code", r |-> None]

\* Assembly.compile, line 257: r is what bind returned
Finalize(r, c) ==
    IF r.err # "" THEN [b |-> r.b, err |-> r.err, val |-> None]
    ELSE [b |-> r.b, err |-> c.err, val |-> c.r]

CompileBound(r) ==
    Finalize(r, IF r.err # "" THEN [err |-> r.err, r |-> None] ELSE ToCode(r.val[1]))

\* Assembly.compile
Compile(b, bind_args, line) == CompileBound(Bind(b, bind_args, line))

\* Assembly._label_ident
LabelIdent(b, label) ==
    LET found == {ident \in DOMAIN b.labels : b.labels[ident] = label} IN
    IF found = {} THEN [err |-> "StopIteration", r |-> None]
    ELSE [err |-> "", r |-> Some(CHOOSE ident \in found : TRUE)]

\* str(arg) as the f-string of dis prints it; unset_text is what the library
\* prints for its UNSET sentinel
StrOfArg(arg, unset_text) ==
    CASE arg.t = "none" -> <<>>
      [] arg.t = "unset" -> unset_text
      [] arg.t = "int" -> <<CHOOSE d \in Digits : DigitValue(d) = arg.n>>
      [] arg.t = "str" -> <<arg.s>>
      [] arg.t = "label" -> <<"<", "bytecode.instr.Label", SP, "object", ">">>
      [] arg.t = "tuple" -> IF arg.inner.t = "str" THEN TupleText(arg.flag, arg.inner.s)
                            ELSE <<"(", "...", ")">>

\* the line dis prints for one entry (None: nothing is printed)
DisEntry(b, entry, unset_text) ==
    CASE entry.kind = "Instr" ->
           [err |-> "", r |-> Some(<<SP, entry.name, SP>> \o StrOfArg(entry.arg, unset_text))]
      [] entry.kind = "BindOpArg" ->
           [err |-> "", r |-> Some(<<SP, entry.name, SP, "{">> \o entry.arg \o <<"}">>)]
      [] entry.kind = "Label" ->
           LET id == LabelIdent(b, entry.l) IN
           IF id.err # "" THEN id ELSE [err |-> "", r |-> Some(<<id.r[1], ":">>)]
      [] entry.kind = "TryBegin" ->
           LET id == LabelIdent(b, entry.target) IN
           IF id.err # "" THEN id
           ELSE [err |-> "",
                 r |-> Some(<<"try", SP, "@", id.r[1], SP, "(", "lasti", "=",
                              IF entry.push_lasti THEN "True" ELSE "False", ")">>)]
      [] OTHER -> [err |-> "", r |-> None]

\* Assembly.dis from entry i on: the lines printed, and the error that ended
\* the loop if any
RECURSIVE DisFrom(_, _, _, _)
\* Assembly.dis, one turn of the loop: e is the line of entry i
DisStep(b, i, out, unset_text, e) ==
    IF e.err # "" THEN [b |-> b, err |-> e.err, out |-> out]
    ELSE DisFrom(b, i + 1, IF e.r = None THEN out ELSE Append(out, e.r[1]), unset_text)

DisFrom(b, i, out, unset_text) ==
    IF i > Len(b.instrs.items) THEN [b |-> b, err |-> "", out |-> out]
    ELSE DisStep(b, i, out, unset_text, DisEntry(b, b.instrs.items[i], unset_text))

\* Assembly.dis
Dis(b, unset_text) == DisFrom(b, 1, <<>>, unset_text)

-----------------------------------------------------------------------------
(* Inputs *)

\* Assembly(lineno = ...) as the callers construct it
DefaultLines == {None, Some(7)}

\* lines of assembly text
DefA == <<"a", ":">>
DefB == <<"b", ":">>
JumpA == <<"JUMP_FORWARD", SP, "@", "a">>
TryA == <<"try", SP, "@", "a">>
TryBLasti == <<"try", SP, "@", "b", SP, "lasti">>
Tried == <<"tried">>
Nop == <<SP, SP, "nop">>
LoadConst1 == <<"LOAD_CONST", SP, "1">>
LoadConstX == <<"LOAD_CONST", SP, "{", "x", "}">>
LoadMethodY == <<"LOAD_METHOD", SP, SP, "{", "y", "}">>
LoadMethodM == <<"load_method", SP, "$", "m">>
Bogus == <<"BOGUS">>
TryAlone == <<"try">>
DefBad == <<"1", ":">>
Comment == <<"#", SP, "a", ":">>
Blank == <<SP>>

GoodLines == {DefA, DefB, JumpA, TryA, TryBLasti, Tried, Nop, LoadConst1,
              LoadConstX, LoadMethodY, LoadMethodM}
BadLines == {Bogus, TryAlone, DefBad}

\* the texts handed to parse: every line alone, and small programs
Programs ==
    { <<JumpA, DefA>>,
      <<JumpA, TryBLasti>>,
      <<Comment, Blank, DefB>>,
      <<Nop, Bogus>>,
      <<TryA, Tried, DefA>> }
Texts == {<<l>> : l \in GoodLines \cup BadLines} \cup Programs

\* the bind_args handed to bind and compile
Values1 == [k \in {"x", "y"} |-> IF k = "x" THEN IntArg(1) ELSE StrArg("m")]
Values2 == [k \in {"x", "y"} |-> IF k = "x" THEN IntArg(2) ELSE StrArg("n")]
ValuesX == [k \in {"x"} |-> IntArg(1)]
BindArgs == {None, Some(Values1), Some(Values2), Some(ValuesX)}
CompileArgs == {None, Some(Values1)}

\* the lineno handed to bind and compile
BindLines == {None, Some(9)}

\* what str() of the library's UNSET sentinel prints
UnsetTexts == {<<"0">>, <<"<", "UNSET", ">">>}

-----------------------------------------------------------------------------
(* The state machine *)

\* the outcome of a call
Outcome(op, pre, err, ids) ==
    [op |-> op, pre |-> pre, err |-> err, ids |-> ids, at |-> 0, asm |-> <<>>,
     bind_args |-> None, line |-> None, val |-> None, alias |-> FALSE, out |-> <<>>]

\* no bind has returned yet
NotBound == [val |-> None, was |-> None, alias |-> FALSE]

\* what the caller of bind holds: the Bytecode as it is now (val), as it was
\* when bind returned it (was), and whether it is the builder's own _instrs
Holds(r) ==
    IF r.err # "" THEN held
    ELSE [val |-> r.val, was |-> r.val, alias |-> r.alias]

\* the held Bytecode after the builder's _instrs became own: an append to
\* self._instrs is an append to the held object when the two are one
Seen(own) == IF held.alias THEN [held EXCEPT !.val = Some(own)] ELSE held

\* the builder's fields become those of b
Becomes(b) ==
    /\ labels' = b.labels
    /\ ref_labels' = b.ref_labels
    /\ tb' = b.tb
    /\ instrs' = b.instrs
    /\ bind_opargs' = b.bind_opargs
    /\ nextId' = b.nextId
    /\ yielded' = b.yielded

\* no call of transform_instruction on its own
Idle == [ver |-> 310, opcode |-> "NOP", arg |-> UNSET, outs |-> <<>>]

\* Assembly() and Assembly(name, filename, lineno): the name and the file
\* that come with the default line
Metadata(line) ==
    IF line = None THEN [name |-> None, filename |-> None]
    ELSE [name |-> Some("f"), filename |-> Some("f.py")]

\* the builder right after Assembly(...): a is what __init__ made
Constructed(a) ==
    /\ labels = a.labels
    /\ ref_labels = a.ref_labels
    /\ tb = a.tb
    /\ instrs = a.instrs
    /\ bind_opargs = a.bind_opargs
    /\ nextId = a.nextId
    /\ yielded = a.yielded
    /\ ret = Outcome("new", a, "", {})
    /\ held = NotBound

Init ==
    /\ pyver \in PyVersions
    /\ lineno \in DefaultLines
    /\ Constructed(NewAssembly(Metadata(lineno).name, Metadata(lineno).filename))
    /\ tx = Idle

\* a call of Assembly.parse.  Calls may grow the entry sequence up to
\* MaxEntries; one of the small programs parsed by a new builder is always
\* allowed, whatever its length.
Parses(asm, r) ==
    /\ \/ Len(r.b.instrs.items) <= MaxEntries
       \/ instrs.items = <<>> /\ asm \in Programs
    /\ Becomes(r.b)
    /\ ret' = [Outcome("parse", Self, r.err, r.ids) EXCEPT !.at = r.at, !.asm = asm]

DoParse ==
    \E asm \in Texts :
        /\ Parses(asm, Parse(Self, asm))
        /\ UNCHANGED <<pyver, lineno, tx, held>>

\* a call of Assembly.bind
Binds(bind_args, line, r) ==
    /\ Becomes(r.b)
    /\ ret' = [Outcome("bind", Self, r.err, {}) EXCEPT
                 !.bind_args = bind_args, !.line = line,
                 !.val = r.val, !.alias = r.alias]

DoBind ==
    \E bind_args \in BindArgs, line \in BindLines :
        /\ Binds(bind_args, line, Bind(Self, bind_args, line))
        /\ UNCHANGED <<pyver, lineno, tx, held>>

\* a call of Assembly.compile
Compiles(bind_args, line, r) ==
    /\ Becomes(r.b)
    /\ ret' = [Outcome("compile", Self, r.err, {}) EXCEPT
                 !.bind_args = bind_args, !.line = line, !.val = r.val]

DoCompile ==
    \E bind_args \in CompileArgs, line \in BindLines :
        /\ Compiles(bind_args, line, Compile(Self, bind_args, line))
        /\ UNCHANGED <<pyver, lineno, tx, held>>

\* a call of Assembly.dis
Disassembles(r) ==
    /\ Becomes(r.b)
    /\ ret' = [Outcome("dis", Self, r.err, {}) EXCEPT !.out = r.out]

DoDis ==
    \E unset_text \in UnsetTexts :
        /\ Disassembles(Dis(Self, unset_text))
        /\ UNCHANGED <<pyver, lineno, tx, held>>

Next == DoParse \/ DoBind \/ DoCompile \/ DoDis

Spec == Init /\ [][Next]_vars

-----------------------------------------------------------------------------
(* The builder with a caller that keeps the Bytecode bind returned while it *)
(* goes on calling parse and bind.                                          *)

ParsesHeld(asm, r) ==
    /\ Parses(asm, r)
    /\ held' = Seen(r.b.instrs)

DoParseHeld ==
    \E asm \in Texts :
        /\ ParsesHeld(asm, Parse(Self, asm))
        /\ UNCHANGED <<pyver, lineno, tx>>

BindsHeld(bind_args, line, r) ==
    /\ Binds(bind_args, line, r)
    /\ held' = Holds(r)

DoBindHeld ==
    \E bind_args \in BindArgs, line \in BindLines :
        /\ BindsHeld(bind_args, line, Bind(Self, bind_args, line))
        /\ UNCHANGED <<pyver, lineno, tx>>

NextHeld == DoParseHeld \/ DoBindHeld

SpecHeld == Init /\ [][NextHeld]_vars

-----------------------------------------------------------------------------
(* transform_instruction on its own.  parse_instruction hands it the opcode *)
(* parse_opcode returned, an upper-case name of dis.opmap, and any operand. *)

TransformOperands ==
    {UNSET, PyNone, IntArg(1), StrArg("m"), LabelArg(1),
     TupleArg(TRUE, StrArg("m")), TupleArg(FALSE, StrArg("m")),
     TupleArg(FALSE, IntArg(1))}

InitTransform ==
    /\ pyver = 310
    /\ lineno = None
    /\ Constructed(NewAssembly(None, None))
    /\ tx \in {[ver |-> v, opcode |-> o, arg |-> a, outs |-> <<>>] :
                 v \in PyVersions, o \in OpMap, a \in TransformOperands}

\* transform_instruction applied to the input, then to its own result
DoTransform ==
    /\ Len(tx.outs) < MaxApply
    /\ tx' = [tx EXCEPT !.outs =
                 Append(@, IF tx.outs = <<>>
                           THEN TransformInstruction(tx.ver, tx.opcode, tx.arg)
                           ELSE TransformInstruction(tx.ver, tx.outs[Len(tx.outs)][1],
                                                     tx.outs[Len(tx.outs)][2]))]
    /\ UNCHANGED <<pyver, lineno, labels, ref_labels, tb, instrs, bind_opargs,
                   nextId, yielded, ret, held>>

NextTransform == DoTransform

SpecTransform == InitTransform /\ [][NextTransform]_vars

-----------------------------------------------------------------------------
(* Properties *)

\* the lines of the last parse call that parse_line was called on or that
\* were skipped: all of them, or those up to the one that raised
Reached ==
    1..(IF ret.err # "" /\ ret.at < Len(ret.asm) THEN ret.at + 1 ELSE Len(ret.asm))

\* the builder as the last parse call had it before its line k
Before(k) == ParseFrom(ret.pre, SubSeq(ret.asm, 1, k - 1), 0).b

\* the label objects an entry sequence holds
LabelsIn(items) == Referenced(items) \cup Defined(items)

(* C1: every reference to an identifier and its definition yield one and   *)
(* the same Label, in whichever order they come, the label tables hold     *)
(* that Label under the identifier, and two identifiers never share one.   *)
C1_LabelsShared ==
    /\ \A p, q \in yielded : (p.ident = q.ident) <=> (p.l = q.l)
    /\ \A p \in yielded :
          \/ p.ident \in DOMAIN labels /\ labels[p.ident] = p.l
          \/ p.ident \in DOMAIN ref_labels /\ ref_labels[p.ident] = p.l
    /\ \A l \in LabelsIn(instrs.items) : \E p \in yielded : p.l = l

\* a reference to a, then its definition, then both orders in one sequence
C1_Witness ==
    /\ Len(instrs.items) = 2
    /\ instrs.items[1].kind = "Instr"
    /\ instrs.items[1].arg.t = "label"
    /\ instrs.items[2] = Label(instrs.items[1].arg.l)
    /\ \E p, q \in yielded : p.ident = q.ident /\ p.how = "ref" /\ q.how = "def"

(* C2: a line that defines an identifier already in the defined-label map  *)
(* fails with a symbol error naming it, whatever was parsed before, and    *)
(* leaves the defined map, the pending map and the entry sequence as the   *)
(* line found them.                                                        *)
C2_DuplicateLabelFails ==
    ret.op = "parse" =>
        \A k \in Reached :
            LET line == Strip(ret.asm[k])
                ident == SubSeq(line, 1, Len(line) - 1)
            IN (EndsWith(line, ":") /\ IsIdentifier(ident)
                /\ ident[1] \in DOMAIN Before(k).labels)
               => /\ ret.at = k - 1
                  /\ ret.err = "label already defined"
                  /\ ErrKind(ret.err) = "symbol"
                  /\ ret.ids = {ident[1]}
                  /\ labels = Before(k).labels
                  /\ ref_labels = Before(k).ref_labels
                  /\ instrs = Before(k).instrs

\* a is defined, another line is parsed, and a second definition of a fails
C2_Witness ==
    /\ ret.op = "parse"
    /\ ret.err = "label already defined"
    /\ Len(instrs.items) = 2
    /\ instrs.items[1].kind = "Label"

(* C3: compile on a builder with a non-empty pending-label map fails with  *)
(* a symbol error that lists exactly the pending identifiers.              *)
C3_CompileReportsPending ==
    (ret.op = "compile" /\ DOMAIN ret.pre.ref_labels # {})
    => /\ ret.err = "undefined labels"
       /\ ErrKind(ret.err) = "symbol"
       /\ ret.ids = DOMAIN ret.pre.ref_labels

\* a region-begin line of the grammar: "try" label_ref ["lasti"]
IsTryLine(line) ==
    /\ ~EndsWith(line, ":")
    /\ Len(Split(line, 2)) >= 2
    /\ Split(line, 2)[1] = <<"try">>
    /\ StartsWith(Split(line, 2)[2], "@")

\* begin markers minus end markers among the first n entries
Depth(items, n) ==
    Cardinality({i \in 1..n : items[i].kind = "TryBegin"})
    - Cardinality({i \in 1..n : items[i].kind = "TryEnd"})

(* C4: where try blocks are supported, a try line parsed while a region is *)
(* open and a tried line parsed while none is open fail with a region      *)
(* error and leave the open-region slot and the entry sequence unchanged;  *)
(* in every prefix of the entry sequence the begin markers outnumber the   *)
(* end markers by 0 or 1, and by 1 over the whole sequence exactly when    *)
(* the open-region slot is set.                                            *)
C4_RegionsNestOnce ==
    pyver >= Py311 =>
        /\ ret.op = "parse" =>
              \A k \in Reached :
                  LET line == Strip(ret.asm[k]) IN
                  /\ (IsTryLine(line) /\ Before(k).tb # None)
                     => /\ ret.at = k - 1
                        /\ ErrKind(ret.err) = "region"
                        /\ tb = Before(k).tb
                        /\ instrs = Before(k).instrs
                  /\ (line = <<"tried">> /\ Before(k).tb = None)
                     => /\ ret.at = k - 1
                        /\ ErrKind(ret.err) = "region"
                        /\ tb = Before(k).tb
                        /\ instrs = Before(k).instrs
        /\ \A n \in 0..Len(instrs.items) : Depth(instrs.items, n) \in {0, 1}
        /\ (Depth(instrs.items, Len(instrs.items)) = 1) <=> (tb # None)

\* a second try line fails while the region opened by the first is open
C4_Witness ==
    /\ pyver >= Py311
    /\ ret.op = "parse"
    /\ ret.err = "cannot start try block while another is open"
    /\ tb # None
    /\ instrs.items[Len(instrs.items)].kind = "TryBegin"

(* C5: bind without values fails with "missing bind arguments" on a        *)
(* builder that has a recorded placeholder, with or without a line, and    *)
(* changes nothing in the builder; without a placeholder it succeeds.      *)
C5_BindWithoutValues ==
    (ret.op = "bind" /\ ret.bind_args = None)
    => IF DOMAIN ret.pre.bind_opargs # {}
       THEN /\ ret.err = "missing bind arguments"
            /\ ErrKind(ret.err) = "binding"
            /\ ret.val = None
            /\ Self = ret.pre
       ELSE ret.err = "" /\ ret.val # None

\* bind(lineno=9) without values on a template with a placeholder
C5_Witness ==
    /\ ret.op = "bind"
    /\ ret.bind_args = None
    /\ ret.line # None
    /\ ret.err = "missing bind arguments"
    /\ DOMAIN bind_opargs # {}

\* values maps the identifier of every placeholder of the template
Covers(values, items) ==
    \A i \in 1..Len(items) :
        items[i].kind = "BindOpArg"
        => Len(items[i].arg) = 1 /\ items[i].arg[1] \in DOMAIN values

(* C6: bind with values (a mapping from the placeholders' identifiers to   *)
(* values) on a template with placeholders returns a sequence as long as   *)
(* the template: where the template has a placeholder, an Instruction with *)
(* the placeholder's opcode and operand values[identifier]; elsewhere the  *)
(* template's entry; and no placeholder.                                   *)
C6_BindFillsPlaceholders ==
    (/\ ret.op = "bind"
     /\ ret.bind_args # None
     /\ DOMAIN ret.pre.bind_opargs # {}
     /\ Covers(ret.bind_args[1], ret.pre.instrs.items))
    => /\ ret.err = ""
       /\ ret.val # None
       /\ Len(ret.val[1].items) = Len(ret.pre.instrs.items)
       /\ \A i \in 1..Len(ret.pre.instrs.items) :
             LET old == ret.pre.instrs.items[i]
                 new == ret.val[1].items[i]
             IN /\ new.kind # "BindOpArg"
                /\ old.kind = "BindOpArg"
                   => /\ new.kind = "Instr"
                      /\ new.name = old.name
                      /\ new.arg = ret.bind_args[1][old.arg[1]]
                /\ old.kind = "Instr" => [new EXCEPT !.lineno = old.lineno] = old
                /\ old.kind \notin {"BindOpArg", "Instr"} => new = old

\* a template of two placeholders bound with the second set of values
C6_Witness ==
    /\ ret.op = "bind"
    /\ ret.err = ""
    /\ ret.bind_args = Some(Values2)
    /\ Cardinality(DOMAIN ret.pre.bind_opargs) = 2
    /\ ret.val[1].items[1].arg = IntArg(2)

(* C7: bind, compile and dis leave the builder as it was: the entry        *)
(* sequence with every Instruction's line, both label maps, the            *)
(* open-region slot and the placeholder map, whatever the arguments and    *)
(* whether or not the call fails.                                          *)
C7_QueriesDoNotMutate ==
    ret.op \in {"bind", "compile", "dis"} => Self = ret.pre

\* bind with values and a line on a template holding an Instruction and a
\* placeholder, both still in the builder with their lines
C7_Witness ==
    /\ ret.op = "bind"
    /\ ret.err = ""
    /\ ret.bind_args # None
    /\ ret.line = Some(9)
    /\ lineno = Some(7)
    /\ \E i, j \in 1..Len(instrs.items) :
          /\ instrs.items[i].kind = "Instr" /\ instrs.items[i].lineno = Some(7)
          /\ instrs.items[j].kind = "BindOpArg"

(* C8: bind(line=N) returns a sequence in which every Instruction has line *)
(* N and every Label and region marker is the template's entry at that     *)
(* position; bind without a line returns each parsed Instruction with its  *)
(* own line and each bound placeholder with the placeholder's default.     *)
C8_Relocation ==
    (ret.op = "bind" /\ ret.err = "")
    => /\ Len(ret.val[1].items) = Len(ret.pre.instrs.items)
       /\ \A i \in 1..Len(ret.pre.instrs.items) :
             LET old == ret.pre.instrs.items[i]
                 new == ret.val[1].items[i]
             IN /\ (ret.line # None /\ new.kind = "Instr") => new.lineno = ret.line
                /\ old.kind \in {"Label", "TryBegin", "TryEnd"} => new = old
                /\ (ret.line = None /\ old.kind = "Instr") => new = old
                /\ (ret.line = None /\ old.kind = "BindOpArg" /\ new.kind = "Instr")
                   => new.lineno = old.lineno

\* a placeholder bound without a line on a builder made with lineno=7
C8_Witness ==
    /\ ret.op = "bind"
    /\ ret.err = ""
    /\ ret.line = None
    /\ lineno = Some(7)
    /\ \E i \in 1..Len(instrs.items) :
          /\ instrs.items[i].kind = "BindOpArg"
          /\ ret.val[1].items[i].kind = "Instr"
          /\ ret.val[1].items[i].lineno = Some(7)

(* C9: where LOAD_METHOD is merged into LOAD_ATTR, LOAD_METHOD x maps to   *)
(* (LOAD_ATTR, (True, x)), LOAD_ATTR with an operand that is no pair to    *)
(* (LOAD_ATTR, (False, x)), anything else to itself; on older versions     *)
(* everything maps to itself; a second application changes nothing.        *)
C9_TransformTable ==
    /\ Len(tx.outs) >= 1 =>
          tx.outs[1] =
             IF tx.ver >= Py312 /\ tx.opcode = "LOAD_METHOD"
             THEN <<"LOAD_ATTR", TupleArg(TRUE, tx.arg)>>
             ELSE IF tx.ver >= Py312 /\ tx.opcode = "LOAD_ATTR" /\ tx.arg.t # "tuple"
             THEN <<"LOAD_ATTR", TupleArg(FALSE, tx.arg)>>
             ELSE <<tx.opcode, tx.arg>>
    /\ \A k \in 2..Len(tx.outs) : tx.outs[k] = tx.outs[1]

\* LOAD_METHOD transformed twice where it is merged into LOAD_ATTR
C9_Witness ==
    /\ tx.ver >= Py312
    /\ tx.opcode = "LOAD_METHOD"
    /\ Len(tx.outs) = 2
    /\ tx.outs[2][1] = "LOAD_ATTR"

\* an entry by kind, opcode and operand, its labels named by identifier
Shape(b, e) ==
    CASE e.kind = "Instr" ->
           [kind |-> "Instr", name |-> e.name,
            arg |-> IF e.arg.t = "label"
                    THEN [t |-> "label", ident |-> LabelIdent(b, e.arg.l).r]
                    ELSE e.arg]
      [] e.kind = "BindOpArg" -> [kind |-> "BindOpArg", name |-> e.name, arg |-> e.arg]
      [] e.kind = "Label" -> [kind |-> "Label", ident |-> LabelIdent(b, e.l).r]
      [] e.kind = "TryBegin" ->
           [kind |-> "TryBegin", ident |-> LabelIdent(b, e.target).r,
            push_lasti |-> e.push_lasti]
      [] OTHER -> [kind |-> e.kind]

Shapes(b) == [i \in 1..Len(b.instrs.items) |-> Shape(b, b.instrs.items[i])]

(* C10: for a valid program (every label defined, every region closed),    *)
(* the text dis prints parses in a fresh builder to an entry sequence      *)
(* equal to the original in kinds, opcodes, operands and order.            *)
C10_DisRoundTrips ==
    (ret.op = "dis" /\ DOMAIN ref_labels = {} /\ tb = None)
    => /\ ret.err = ""
       /\ Parse(NewAssembly(None, None), ret.out).err = ""
       /\ Shapes(Parse(NewAssembly(None, None), ret.out).b) = Shapes(Self)

(* C11: dis prints one line per entry of the entry sequence, the region-end *)
(* marker included, so that a dis call that returns has printed as many     *)
(* lines as the sequence has entries.                                       *)
C11_DisLinePerEntry ==
    (ret.op = "dis" /\ ret.err = "") => Len(ret.out) = Len(instrs.items)

(* C12: the sequence compile finalizes carries the name and the origin     *)
(* file the builder was constructed with, with or without placeholders and *)
(* with or without a line argument.                                        *)
C12_CompileKeepsMetadata ==
    (ret.op = "compile" /\ ret.err = "")
    => /\ ret.val[1].name = instrs.name
       /\ ret.val[1].filename = instrs.filename

\* a line whose first word is try and that is no label definition
StartsTry(line) ==
    /\ line # <<>>
    /\ ~EndsWith(line, ":")
    /\ Split(line, 1)[1] = <<"try">>

(* C13: where try blocks are not supported, a line that begins with try    *)
(* and a tried line are parsed as instruction lines and fail with a syntax *)
(* error, unknown opcode; the failure sets no open region, leaves no       *)
(* pending label for the target and appends nothing.                       *)
C13_NoRegionsBefore311 ==
    pyver < Py311 =>
        /\ tb = None
        /\ \A i \in 1..Len(instrs.items) :
              instrs.items[i].kind \notin {"TryBegin", "TryEnd"}
        /\ ret.op = "parse" =>
              \A k \in Reached :
                  LET line == Strip(ret.asm[k]) IN
                  (StartsTry(line) \/ line = <<"tried">>)
                  => /\ ret.at = k - 1
                     /\ ret.err = "unknown opcode"
                     /\ ErrKind(ret.err) = "syntax"
                     /\ ref_labels = Before(k).ref_labels
                     /\ labels = Before(k).labels
                     /\ instrs = Before(k).instrs

\* "try @b lasti" fails as an instruction after a line that left a pending,
\* and b is not pending
C13_Witness ==
    /\ pyver < Py311
    /\ ret.op = "parse"
    /\ ret.asm = <<JumpA, TryBLasti>>
    /\ ret.err = "unknown opcode"
    /\ DOMAIN ref_labels = {"a"}

\* the identifiers pending at some point of the last parse call that are
\* defined when it ends
DefinedLater ==
    UNION {DOMAIN Before(k).ref_labels : k \in 1..(ret.at + 1)} \ DOMAIN ref_labels

\* the lines of the last parse call that are neither blank nor comments
CodeLines ==
    {k \in 1..Len(ret.asm) :
        Strip(ret.asm[k]) # <<>> /\ ~StartsWith(Strip(ret.asm[k]), "#")}

(* C14: a parse call whose lines all parse fails exactly when an           *)
(* identifier is pending after its last line, with a symbol error listing  *)
(* exactly the pending identifiers; all its lines are appended by then, and *)
(* an identifier that was pending and got defined in the same call is not  *)
(* reported.                                                               *)
C14_ValidateAtEndOfParse ==
    (ret.op = "parse" /\ ret.at = Len(ret.asm))
    => /\ (ret.err # "") <=> (DOMAIN ref_labels # {})
       /\ ret.err # "" => (ret.err = "undefined labels" /\ ErrKind(ret.err) = "symbol")
       /\ ret.ids = DOMAIN ref_labels
       /\ ret.ids \cap DefinedLater = {}
       /\ Len(instrs.items) = Len(ret.pre.instrs.items) + Cardinality(CodeLines)
       /\ SubSeq(instrs.items, 1, Len(ret.pre.instrs.items)) = ret.pre.instrs.items

\* a call that references a and b and defines neither follows a call that
\* failed for a alone
C14_Witness ==
    /\ ret.op = "parse"
    /\ ret.asm = <<JumpA, TryBLasti>>
    /\ ret.at = 2
    /\ ret.err = "undefined labels"
    /\ ret.ids = {"a", "b"}

(* C15: after any parse calls, failed ones included, position i is a key   *)
(* of the placeholder map exactly when entry i (counted from 0) is a       *)
(* placeholder, the map holds that entry at i, and a parse call keeps the  *)
(* entries and the recorded positions it found, appending only.            *)
C15_PlaceholderPositions ==
    /\ DOMAIN bind_opargs =
          {i - 1 : i \in {k \in 1..Len(instrs.items) :
                            instrs.items[k].kind = "BindOpArg"}}
    /\ \A i \in DOMAIN bind_opargs : bind_opargs[i] = instrs.items[i + 1]
    /\ ret.op = "parse" =>
          /\ Len(ret.pre.instrs.items) <= Len(instrs.items)
          /\ SubSeq(instrs.items, 1, Len(ret.pre.instrs.items)) = ret.pre.instrs.items
          /\ \A i \in DOMAIN ret.pre.bind_opargs :
                i \in DOMAIN bind_opargs /\ bind_opargs[i] = ret.pre.bind_opargs[i]

\* a placeholder recorded at position 0 by an earlier call, and a failed
\* call that appended after it
C15_Witness ==
    /\ ret.op = "parse"
    /\ ret.err # ""
    /\ 0 \in DOMAIN ret.pre.bind_opargs
    /\ Len(instrs.items) = 2
    /\ Len(ret.pre.instrs.items) = 1
    /\ bind_opargs[0] = instrs.items[1]

(* C16: a parse call that fails, at a line or at its final check for       *)
(* undefined labels, leaves the builder as the call found it: no entry     *)
(* appended, no label defined or pending, the open-region slot and the     *)
(* placeholder map unchanged.                                              *)
C16_FailedParseChangesNothing ==
    (ret.op = "parse" /\ ret.err # "")
    => /\ instrs = ret.pre.instrs
       /\ labels = ret.pre.labels
       /\ ref_labels = ret.pre.ref_labels
       /\ tb = ret.pre.tb
       /\ bind_opargs = ret.pre.bind_opargs

(* C17: where try blocks are supported, an open region is checked neither  *)
(* at the end of parse nor by compile, and it stays open across calls: a   *)
(* parse call that leaves a region open and no label pending succeeds;     *)
(* compile gives what it gives with the slot empty and leaves the slot     *)
(* alone, as do bind and dis; a tried line that begins a later parse call  *)
(* closes the region an earlier call opened, and a try line there fails    *)
(* with a region error.                                                    *)
C17_OpenRegionUnchecked ==
    pyver >= Py311 =>
        /\ (ret.op = "parse" /\ ret.at = Len(ret.asm) /\ DOMAIN ref_labels = {})
           => ret.err = ""
        /\ ret.op = "compile" =>
              /\ ErrKind(ret.err) # "region"
              /\ LET c == Compile([ret.pre EXCEPT !.tb = None], ret.bind_args, ret.line)
                 IN ret.err = c.err /\ ret.val = c.val
        /\ ret.op \in {"bind", "compile", "dis"} => tb = ret.pre.tb
        /\ (ret.op = "parse" /\ ret.pre.tb # None /\ Len(ret.asm) >= 1) =>
              /\ Strip(ret.asm[1]) = <<"tried">> =>
                    /\ ret.at >= 1
                    /\ instrs.items[Len(ret.pre.instrs.items) + 1]
                       = TryEnd(ret.pre.tb[1].id)
              /\ IsTryLine(Strip(ret.asm[1])) =>
                    /\ ret.at = 0
                    /\ ret.err = "cannot start try block while another is open"
                    /\ ErrKind(ret.err) = "region"
                    /\ tb = ret.pre.tb

\* a parse call of the one line tried closes the region an earlier call left
\* open
C17_Witness ==
    /\ pyver >= Py311
    /\ ret.op = "parse"
    /\ ret.asm = <<Tried>>
    /\ ret.pre.tb # None
    /\ tb = None
    /\ instrs.items[Len(instrs.items)].kind = "TryEnd"

\* values gives a bare name to every placeholder of the template
BareNames(values, items) ==
    \A i \in 1..Len(items) :
        items[i].kind = "BindOpArg" => values[items[i].arg[1]].t = "str"

(* C18: where LOAD_METHOD is merged into LOAD_ATTR, bind with bare names   *)
(* for the placeholders returns a sequence the transform has reached       *)
(* everywhere: no Instruction has opcode LOAD_METHOD, and every LOAD_ATTR  *)
(* Instruction has a tagged pair as operand.                               *)
C18_TransformReachesPlaceholders ==
    (/\ pyver >= Py312
     /\ ret.op = "bind"
     /\ ret.bind_args # None
     /\ Covers(ret.bind_args[1], ret.pre.instrs.items)
     /\ BareNames(ret.bind_args[1], ret.pre.instrs.items))
    => /\ ret.err = ""
       /\ \A i \in 1..Len(ret.val[1].items) :
             LET e == ret.val[1].items[i] IN
             e.kind = "Instr"
             => /\ e.name # "LOAD_METHOD"
                /\ e.name = "LOAD_ATTR" => e.arg.t = "tuple"

(* C19: no identifier is in both the defined-label map and the pending-    *)
(* label map; across every call an identifier that leaves the pending map  *)
(* is in the defined map afterwards, with the Label it had while pending,  *)
(* and an identifier in the defined map stays there with its Label.        *)
C19_LabelMapsDisjoint ==
    /\ DOMAIN labels \cap DOMAIN ref_labels = {}
    /\ \A id \in DOMAIN ret.pre.labels :
          id \in DOMAIN labels /\ labels[id] = ret.pre.labels[id]
    /\ \A id \in DOMAIN ret.pre.ref_labels :
          \/ id \in DOMAIN ref_labels /\ ref_labels[id] = ret.pre.ref_labels[id]
          \/ id \in DOMAIN labels /\ labels[id] = ret.pre.ref_labels[id]

\* a, pending as the target of a try line of an earlier call, is defined by
\* this call with the Label the try block holds
C19_Witness ==
    /\ ret.op = "parse"
    /\ DOMAIN ret.pre.ref_labels = {"a"}
    /\ DOMAIN ref_labels = {}
    /\ DOMAIN labels = {"a"}
    /\ instrs.items[1].kind = "TryBegin"
    /\ instrs.items[2] = Label(instrs.items[1].target)

(* C20: the sequence bind returned stays as it was when bind returned it,  *)
(* in length and in entries, whatever parse calls the builder gets         *)
(* afterwards, for templates with and without placeholders and with and    *)
(* without a line.                                                         *)
C20_BindReturnsSnapshot ==
    held.val = held.was

====
